---- MODULE Spec2Model ----
(***************************************************************************)
(* The unified listing store (DatabaseService), the normalizer/validator   *)
(* and the two aggregation runs (KleinanzeigenScraper.scrape and           *)
(* WgGesuchtScraper.scrape) of the rental-listing aggregator.              *)
(*                                                                         *)
(* Time is counted in days.  Node runs the code between two awaits         *)
(* atomically, so every action below is one await: the remote operation    *)
(* together with the synchronous code that follows it up to the next       *)
(* await.  Optional values (price, null or a number) are sequences of      *)
(* length at most one.                                                     *)
(***************************************************************************)
EXTENDS Integers, Sequences, FiniteSets, TLC

VARIABLES
    now,        \* the clock (Date.now() and Firestore's server time), in days
    store,      \* collection rental_listings: a set of documents
    run,        \* the aggregation runs in flight, one record per slot
    statsLog,   \* collection scraping_stats
    errorLog,   \* collection scraping_errors
    runsStarted,\* number of runs started so far
    failures,   \* number of failed remote operations so far
    calls,      \* the latest direct calls of the normalizer and validator
    random,     \* what Date.now() and Math.random() yield at the next call
    cron,       \* the scheduled function scrapeNachmieter: its position
    nachmieter  \* collection nachmieter_listings: a set of documents

vars == <<now, store, run, statsLog, errorLog, runsStarted, failures,
          calls, random, cron, nachmieter>>

----------------------------------------------------------------------------
(* Bounds of the model *)

MaxCronRuns == 2
ShortWindow == 5
SweepClock == 8

MaxClock == 9
MaxRuns == 2
MaxItems == 2
MaxFailures == 2
TickDays == 4
MaxLiveItems == 1
EarlierPrice == 300

(* Program constants *)

KleinanzeigenInactiveDays == 7
WgInactiveDays == 7
MaxImages == 10

Slots == {1, 2}
Sources == {"kleinanzeigen", "wg-gesucht"}

NULL == <<>>
Some(v) == <<v>>

----------------------------------------------------------------------------
(* Raw records, as the two fetchers return them *)

\* searchItems: id is a digit string, title the trimmed heading, price a
\* number or null.
KleinanzeigenItems ==
    { [id |-> "1", title |-> "A", price |-> Some(650)],
      [id |-> "2", title |-> "",  price |-> NULL] }

\* scrapeListings: offer_id, offer_title (never empty), total_costs,
\* geo_latitude and geo_longitude (in Berlin).
WgOffers ==
    { [id |-> "1", title |-> "B", price |-> Some(400),
       lat |-> Some(52), lng |-> Some(13)],
      [id |-> "2", title |-> "C", price |-> Some(500),
       lat |-> Some(52), lng |-> Some(13)] }

RawItems(source) ==
    IF source = "kleinanzeigen" THEN KleinanzeigenItems ELSE WgOffers

\* getItemDetails: the detail page's title (which the seller may have
\* edited between two fetches), or a failed fetch.
DetailResults == { [ok |-> FALSE, title |-> ""],
                   [ok |-> TRUE,  title |-> "D"],
                   [ok |-> TRUE,  title |-> "E"] }

SeqsUpTo(S, n) == UNION { [1..k -> S] : k \in 0..n }

Batches(source) == SeqsUpTo(RawItems(source), MaxItems)

----------------------------------------------------------------------------
(* Normalizer and validator *)

\* JavaScript truthiness of a string and of an optional number.
TruthyStr(s) == s # ""

TruthyNum(p) == p # NULL /\ p # Some(0)

\* Titles of the model are trimmed and single-spaced already.
cleanString(str) == IF ~TruthyStr(str) THEN "" ELSE str

\* Numbers only: the fetchers parse the price themselves.
normalizePrice(price) == IF ~TruthyNum(price) THEN NULL ELSE price

\* A property of a raw record, undefined (here "" or null) when absent.
StrField(data, f) == IF f \in DOMAIN data THEN data[f] ELSE ""

NumField(data, f) == IF f \in DOMAIN data THEN data[f] ELSE NULL

\* The first 12 hex digits of the MD5 of the input: a function of the
\* input, written here as the tagged input.
Md5Hex12(input) == "md5:" \o input

Randoms == {"r1", "r2"}

generateUniqueId(input) ==
    IF ~TruthyStr(input) THEN "generated-" \o random ELSE Md5Hex12(input)

NoCoordinates == [lat |-> NULL, lng |-> NULL]

\* data.coordinates, or geo_latitude / geo_longitude when both are truthy.
extractCoordinates(data) ==
    IF "coordinates" \in DOMAIN data THEN data.coordinates
    ELSE IF TruthyNum(NumField(data, "lat")) /\ TruthyNum(NumField(data, "lng"))
    THEN [lat |-> data.lat, lng |-> data.lng]
    ELSE NoCoordinates

\* A string is a sequence of characters here, a parsed number a count of
\* digits after the point and the digits read as one integer.
DigitChars == <<"0", "1", "2", "3", "4", "5", "6", "7", "8", "9">>

IsDigit(c) == \E n \in DOMAIN DigitChars : DigitChars[n] = c

DigitValue(c) == (CHOOSE n \in DOMAIN DigitChars : DigitChars[n] = c) - 1

RECURSIVE DigitsValue(_)

DigitsValue(chars) ==
    IF chars = <<>> THEN 0
    ELSE 10 * DigitsValue(SubSeq(chars, 1, Len(chars) - 1))
            + DigitValue(chars[Len(chars)])

\* The longest prefix of digits.
DigitPrefix(chars) ==
    LET stops == { k \in DOMAIN chars : ~IsDigit(chars[k]) }
        end == IF stops = {} THEN Len(chars)
               ELSE (CHOOSE k \in stops : \A j \in stops : k <= j) - 1
    IN SubSeq(chars, 1, end)

\* price.replace(/[^\d,.]/g, "")
KeepDigitsCommasDots(chars) ==
    SelectSeq(chars, LAMBDA c : IsDigit(c) \/ c = "," \/ c = ".")

\* .replace(",", "."): the first comma only.
ReplaceFirstComma(chars) ==
    LET commas == { k \in DOMAIN chars : chars[k] = "," }
    IN IF commas = {} THEN chars
       ELSE [chars EXCEPT ![CHOOSE k \in commas : \A j \in commas : k <= j] = "."]

\* parseFloat: digits, then optionally a point and digits; what follows is
\* ignored; NaN (null here) when there is no digit.
parseFloat(chars) ==
    LET int == DigitPrefix(chars)
        rest == SubSeq(chars, Len(int) + 1, Len(chars))
        frac == IF rest # <<>> /\ rest[1] = "."
                THEN DigitPrefix(SubSeq(rest, 2, Len(rest))) ELSE <<>>
    IN IF int = <<>> /\ frac = <<>> THEN NULL
       ELSE Some([digits |-> DigitsValue(int \o frac), decimals |-> Len(frac)])

\* normalizePrice on null and on a string: parseFloat(cleanPrice) || null.
normalizePriceString(price) ==
    IF price.type = "null" \/ price.chars = <<>> THEN NULL
    ELSE LET value == parseFloat(ReplaceFirstComma(
                                    KeepDigitsCommasDots(price.chars)))
         IN IF value = NULL \/ value[1].digits = 0 THEN NULL ELSE value

\* An element of an images array is a string, written as its scheme ("" or
\* "https:") and the rest, or something that is no string.
NoString == [isString |-> FALSE, scheme |-> "", rest |-> ""]

Url(scheme, rest) == [isString |-> TRUE, scheme |-> scheme, rest |-> rest]

\* An array property of a raw record, undefined (falsy) when absent.
HasField(data, f) == f \in DOMAIN data

\* images.filter(string and truthy).map(https: prefix).slice(0, 10)
normalizeImages(images) ==
    LET strings == SelectSeq(images,
                       LAMBDA img : img.isString /\ (img.scheme \o img.rest) # "")
        urls == [k \in DOMAIN strings |->
                    IF strings[k].scheme # "" THEN strings[k]
                    ELSE Url("https:", strings[k].rest)]
    IN SubSeq(urls, 1, IF Len(urls) < MaxImages THEN Len(urls) ELSE MaxImages)

RECURSIVE WithoutDuplicates(_)

\* [...new Set(images)]: the first occurrence of each element, in order.
WithoutDuplicates(images) ==
    IF images = <<>> THEN <<>>
    ELSE LET front == WithoutDuplicates(SubSeq(images, 1, Len(images) - 1))
             last == images[Len(images)]
         IN IF \E k \in DOMAIN front : front[k] = last THEN front
            ELSE Append(front, last)

\* thumb, sized and small, each under https://www.wg-gesucht.de/.
normalizeWgGesuchtImages(data) ==
    LET image(f) == IF TruthyStr(StrField(data, f))
                    THEN <<Url("https:", "//www.wg-gesucht.de/" \o data[f])>>
                    ELSE <<>>
    IN WithoutDuplicates(image("thumb") \o image("sized") \o image("small"))

normalizeKleinanzeigen(data) ==
    LET id == IF TruthyStr(data.id) THEN data.id
              ELSE generateUniqueId(IF TruthyStr(StrField(data, "url"))
                                    THEN data.url ELSE data.title)
    IN [ id          |-> id,
         source      |-> "kleinanzeigen",
         sourceId    |-> id,
         title       |-> cleanString(IF TruthyStr(data.title) THEN data.title
                                     ELSE StrField(data, "detailedTitle")),
         price       |-> normalizePrice(data.price),
         coordinates |-> extractCoordinates(data),
         images      |-> normalizeImages(
                            IF HasField(data, "allImages") THEN data.allImages
                            ELSE IF HasField(data, "images") THEN data.images
                            ELSE <<>>) ]

normalizeWgGesucht(data) ==
    LET id == IF TruthyStr(data.id) THEN data.id
              ELSE generateUniqueId(data.title)
        lat == NumField(data, "lat")
        lng == NumField(data, "lng")
    IN [ id          |-> "wg-" \o id,
         source      |-> "wg-gesucht",
         sourceId    |-> id,
         title       |-> cleanString(data.title),
         price       |-> normalizePrice(data.price),
         coordinates |-> [lat |-> IF TruthyNum(lat) THEN lat ELSE NULL,
                          lng |-> IF TruthyNum(lng) THEN lng ELSE NULL],
         images      |-> normalizeWgGesuchtImages(data) ]

normalizeListing(rawData, source) ==
    IF source = "kleinanzeigen" THEN normalizeKleinanzeigen(rawData)
    ELSE normalizeWgGesucht(rawData)

\* Faulty variant: the validator accepts every listing.
validateAcceptingAll(data) == [isValid |-> TRUE, errors |-> <<>>]

\* Faulty variant: the validator returns at the first violated rule.
validateFirstViolation(data) ==
    IF ~TruthyStr(data.id)
    THEN [isValid |-> FALSE, errors |-> <<"Missing required field: id">>]
    ELSE IF ~TruthyStr(data.source)
    THEN [isValid |-> FALSE, errors |-> <<"Missing required field: source">>]
    ELSE IF ~TruthyStr(data.title)
    THEN [isValid |-> FALSE, errors |-> <<"Missing required field: title">>]
    ELSE IF data.price # NULL /\ data.price[1] < 0
    THEN [isValid |-> FALSE, errors |-> <<"Invalid price value">>]
    ELSE [isValid |-> TRUE, errors |-> <<>>]

\* errors.push(message) when the rule is violated.
Push(violated, message) == IF violated THEN <<message>> ELSE <<>>

validateNormalizedData(data) ==
    LET coordinates == IF "coordinates" \in DOMAIN data THEN data.coordinates
                       ELSE NoCoordinates
        lat == coordinates.lat
        lng == coordinates.lng
        errors ==
              Push(~TruthyStr(data.id), "Missing required field: id")
           \o Push(~TruthyStr(data.source), "Missing required field: source")
           \o Push(~TruthyStr(data.title), "Missing required field: title")
           \o Push(data.price # NULL /\ data.price[1] < 0,
                   "Invalid price value")
           \o Push(TruthyNum(lat) /\ (lat[1] < -90 \/ lat[1] > 90),
                   "Invalid latitude")
           \o Push(TruthyNum(lng) /\ (lng[1] < -180 \/ lng[1] > 180),
                   "Invalid longitude")
    IN [isValid |-> Len(errors) = 0, errors |-> errors]

----------------------------------------------------------------------------
(* The store *)

Docs(id) == { d \in store : d.id = id }

Exists(id) == Docs(id) # {}

StoredIds == { d.id : d \in store }

\* FieldValue.serverTimestamp(): the commit time, which Firestore keeps
\* strictly after the previous commit of the same document.
ServerTimestamp(id) ==
    LET prev == { d.lastSeen : d \in Docs(id) }
    IN IF \A t \in prev : t < now THEN now
       ELSE (CHOOSE t \in prev : \A u \in prev : u <= t) + 1


LifecycleKeys == {"firstSeen", "lastSeen", "scrapedAt", "isActive"}

\* docRef.set({...listingData, firstSeen, lastSeen, scrapedAt, isActive: true})
SetDoc(listingData, timestamp) ==
    [ f \in DOMAIN listingData \cup LifecycleKeys |->
        IF f \in {"firstSeen", "lastSeen", "scrapedAt"} THEN timestamp
        ELSE IF f = "isActive" THEN TRUE
        ELSE listingData[f] ]

\* Faulty variant: the update does not write lastSeen.
UpdateDocKeepingLastSeen(doc, listingData, timestamp) ==
    [ f \in DOMAIN doc \cup DOMAIN listingData \cup {"lastSeen", "scrapedAt"} |->
        IF f = "scrapedAt" THEN timestamp
        ELSE IF f \in DOMAIN listingData THEN listingData[f]
        ELSE doc[f] ]

\* Faulty variant: the update writes isActive: true as the creation does.
UpdateDocActivating(doc, listingData, timestamp) ==
    [ f \in DOMAIN doc \cup DOMAIN listingData \cup {"lastSeen", "scrapedAt"} |->
        IF f \in {"lastSeen", "scrapedAt"} THEN timestamp
        ELSE IF f = "isActive" THEN TRUE
        ELSE IF f \in DOMAIN listingData THEN listingData[f]
        ELSE doc[f] ]

\* Faulty variant: the update writes the two timestamps only.
UpdateDocKeepingFields(doc, listingData, timestamp) ==
    [ f \in DOMAIN doc \cup {"lastSeen", "scrapedAt"} |->
        IF f \in {"lastSeen", "scrapedAt"} THEN timestamp ELSE doc[f] ]

\* docRef.update({...listingData, lastSeen, scrapedAt}) on the stored document
UpdateDoc(doc, listingData, timestamp) ==
    [ f \in DOMAIN doc \cup DOMAIN listingData \cup {"lastSeen", "scrapedAt"} |->
        IF f \in {"lastSeen", "scrapedAt"} THEN timestamp
        ELSE IF f \in DOMAIN listingData THEN listingData[f]
        ELSE doc[f] ]

\* Faulty variant: docRef.set adds a document and leaves the one stored.
StoreAfterSetAdding(listingData, timestamp) ==
    store \cup { SetDoc(listingData, timestamp) }

\* The collection after docRef.set: the document of that id is replaced.
StoreAfterSet(listingData, timestamp) ==
    (store \ Docs(listingData.id)) \cup { SetDoc(listingData, timestamp) }

\* The collection after docRef.update.
StoreAfterUpdate(listingData, timestamp) ==
    { IF d.id = listingData.id THEN UpdateDoc(d, listingData, timestamp) ELSE d
      : d \in store }

\* Faulty variant: the query without where("isActive", "==", true).
StaleQueryAnyActivity(source, cutoffTime) ==
    { d \in store : /\ d.source = source
                    /\ d.lastSeen < cutoffTime }

\* Faulty variant: where("lastSeen", "<=", cutoffTime).
StaleQueryInclusive(source, cutoffTime) ==
    { d \in store : /\ d.source = source
                    /\ d.lastSeen <= cutoffTime
                    /\ d.isActive = TRUE }

\* Faulty variant: the query without where("source", "==", source).
StaleQueryAnySource(source, cutoffTime) ==
    { d \in store : /\ d.lastSeen < cutoffTime
                    /\ d.isActive = TRUE }

\* The query of markListingsInactive.
StaleQuery(source, cutoffTime) ==
    { d \in store : /\ d.source = source
                    /\ d.lastSeen < cutoffTime
                    /\ d.isActive = TRUE }

\* Faulty variant: batch.delete(doc.ref) for every snapshot document.
StoreAfterBatchDelete(ids) ==
    { d \in store : d.id \notin ids }

\* batch.update(doc.ref, {isActive: false}) for every snapshot document,
\* then batch.commit().
StoreAfterBatch(ids) ==
    { IF d.id \in ids THEN [d EXCEPT !.isActive = FALSE] ELSE d : d \in store }

InactivityWindow(source) ==
    IF source = "kleinanzeigen" THEN KleinanzeigenInactiveDays
    ELSE WgInactiveDays

----------------------------------------------------------------------------
(* The aggregation run: KleinanzeigenScraper.scrape, WgGesuchtScraper.scrape *)

BaseKeys == {"source", "query", "totalFound", "newItems", "updatedItems",
             "errors", "startTime"}

InitStats(source) ==
    [ source         |-> source,
      query          |-> IF source = "kleinanzeigen" THEN "nachmieter"
                         ELSE "general_listings",
      totalFound     |-> 0,
      newItems       |-> 0,
      updatedItems   |-> 0,
      detailsFetched |-> 0,
      detailsSkipped |-> 0,
      errors         |-> 0,
      keys           |-> IF source = "kleinanzeigen"
                         THEN BaseKeys \cup {"detailsFetched", "detailsSkipped"}
                         ELSE BaseKeys ]

NoItem == [id |-> "", title |-> "", price |-> NULL,
           detailedTitle |-> "", detailedInfoFetched |-> FALSE]

NoListing == [id |-> "", source |-> "", sourceId |-> "", title |-> "",
              price |-> NULL]

NoResult == [action |-> "none", id |-> ""]

IdleRun ==
    [ pc            |-> "idle",
      source        |-> "none",
      items         |-> <<>>,
      i             |-> 0,
      itemData      |-> NoItem,
      norm          |-> NoListing,
      exists        |-> FALSE,
      existingDoc   |-> {},
      result        |-> NoResult,
      cutoff        |-> 0,
      snapshot      |-> {},
      inactiveCount |-> 0,
      sweeps        |-> 0,
      error         |-> "none",
      written       |-> {},
      stats         |-> InitStats("none") ]

\* let itemData = { ...item }; detailedTitle and detailedInfoFetched are
\* undefined until the detail page has been asked for.
ItemData(item) ==
    [ f \in DOMAIN item \cup {"detailedTitle", "detailedInfoFetched"} |->
        IF f \in DOMAIN item THEN item[f]
        ELSE IF f = "detailedTitle" THEN ""
        ELSE FALSE ]

RECURSIVE LoopHead(_)
RECURSIVE Process(_, _)

\* normalizeListing, validateNormalizedData; an invalid record is counted
\* and skipped (continue), a valid one goes to saveOrUpdateListing.
Process(rec, itemData) ==
    LET normalizedData == normalizeListing(itemData, rec.source)
        validation == validateNormalizedData(normalizedData)
    IN IF ~validation.isValid
       THEN LoopHead([rec EXCEPT !.stats.errors = @ + 1, !.i = @ + 1,
                                 !.itemData = NoItem])
       ELSE [rec EXCEPT !.pc = "get", !.itemData = itemData,
                        !.norm = normalizedData]

\* for (let i = 0; i < items.length; i++): the code up to the next await.
\* After the last record markListingsInactive is called (sweeps counts the
\* calls of the run).
LoopHead(rec) ==
    IF rec.i > Len(rec.items)
    THEN [rec EXCEPT !.pc = "sweepRead", !.norm = NoListing,
                     !.itemData = NoItem, !.sweeps = @ + 1]
    ELSE IF rec.source = "kleinanzeigen"
    THEN [rec EXCEPT !.pc = "details", !.norm = NoListing,
                     !.itemData = ItemData(rec.items[rec.i])]
    ELSE Process([rec EXCEPT !.norm = NoListing], ItemData(rec.items[rec.i]))

Set(r, rec) == run' = [run EXCEPT ![r] = rec]

Idle(r) == run[r].pc \in {"idle", "returned", "thrown"}

\* scrape(options): the statistics of the run are initialised.
Start(r, source) ==
    /\ Idle(r)
    /\ Set(r, [IdleRun EXCEPT !.pc = "search", !.source = source,
                              !.stats = InitStats(source)])
    /\ UNCHANGED <<now, store, statsLog, errorLog, failures>>

\* searchItems / scrapeListings resolves with the raw records.
SearchOk(r, items) ==
    /\ run[r].pc = "search"
    /\ LET rec == [run[r] EXCEPT !.items = items, !.i = 1,
                                 !.stats.totalFound = Len(items)]
       IN Set(r, IF Len(items) = 0 THEN [rec EXCEPT !.pc = "logStatsEmpty"]
                 ELSE LoopHead(rec))
    /\ UNCHANGED <<now, store, statsLog, errorLog, runsStarted, failures>>

\* searchItems / scrapeListings rejects: the outer catch.
SearchFail(r) ==
    /\ run[r].pc = "search"
    /\ Set(r, [run[r] EXCEPT !.pc = "catchLogError", !.error = "fetch"])
    /\ UNCHANGED <<now, store, statsLog, errorLog, runsStarted>>

\* getItemDetails(item.id) resolves or rejects; then normalize and validate.
Details(r, detailedInfo) ==
    /\ run[r].pc = "details"
    /\ LET rec == run[r]
           item == rec.itemData
       IN Set(r,
            IF detailedInfo.ok
            THEN Process([rec EXCEPT !.stats.detailsFetched = @ + 1],
                         [item EXCEPT
                            !.detailedTitle =
                                IF TruthyStr(detailedInfo.title)
                                THEN detailedInfo.title ELSE item.title,
                            !.detailedInfoFetched = TRUE])
            ELSE Process([rec EXCEPT !.stats.detailsSkipped = @ + 1,
                                     !.stats.errors = @ + 1],
                         [item EXCEPT !.detailedInfoFetched = FALSE]))
    /\ UNCHANGED <<now, store, statsLog, errorLog, runsStarted, failures>>

\* Faulty variant: the existence check always finds no document.
GetFindingNothing(r) ==
    /\ run[r].pc = "get"
    /\ Set(r, [run[r] EXCEPT !.pc = "write", !.exists = FALSE,
                             !.existingDoc = {}])
    /\ UNCHANGED <<now, store, statsLog, errorLog, runsStarted, failures>>

\* saveOrUpdateListing: existingDoc = await docRef.get()
Get(r) ==
    /\ run[r].pc = "get"
    /\ Set(r, [run[r] EXCEPT !.pc = "write",
                             !.exists = Exists(run[r].norm.id),
                             !.existingDoc = Docs(run[r].norm.id)])
    /\ UNCHANGED <<now, store, statsLog, errorLog, runsStarted, failures>>

\* The result of saveOrUpdateListing is counted and the loop goes on.
Saved(rec, action) ==
    LoopHead([rec EXCEPT
        !.result = [action |-> action, id |-> rec.norm.id],
        !.existingDoc = {},
        !.stats.newItems = IF action = "created" THEN @ + 1 ELSE @,
        !.stats.updatedItems = IF action = "updated" THEN @ + 1 ELSE @,
        !.i = @ + 1])

\* The documents the run has written so far, the latest one of each id.
Written(rec, docs) ==
    [rec EXCEPT !.written =
        { d \in @ : \A e \in docs : e.id # d.id } \cup docs]

\* saveOrUpdateListing: await docRef.update(...) or await docRef.set(...)
Write(r) ==
    /\ run[r].pc = "write"
    /\ LET rec == run[r]
           listingData == rec.norm
           timestamp == ServerTimestamp(listingData.id)
       IN /\ timestamp <= MaxClock
          /\ now' = timestamp
          /\ IF rec.exists
             THEN /\ Exists(listingData.id)
                  /\ store' = StoreAfterUpdate(listingData, timestamp)
                  /\ Set(r, Saved(Written(rec,
                         { UpdateDoc(d, listingData, timestamp) :
                              d \in Docs(listingData.id) }), "updated"))
             ELSE /\ store' = StoreAfterSet(listingData, timestamp)
                  /\ Set(r, Saved(Written(rec,
                         { SetDoc(listingData, timestamp) }), "created"))
    /\ UNCHANGED <<statsLog, errorLog, runsStarted, failures>>

\* docRef.get, docRef.update or docRef.set rejects: saveOrUpdateListing
\* rethrows into the item's catch.
SaveFail(r) ==
    /\ run[r].pc \in {"get", "write"}
    /\ Set(r, [run[r] EXCEPT !.pc = "itemLogError"])
    /\ UNCHANGED <<now, store, statsLog, errorLog, runsStarted>>

\* Faulty variant: the item's error is rethrown into the outer catch.
ItemLogErrorAborting(r) ==
    /\ run[r].pc = "itemLogError"
    /\ errorLog' = errorLog \cup
          { [source |-> run[r].source, operation |-> "process_item",
             itemId |-> run[r].itemData.id] }
    /\ Set(r, [run[r] EXCEPT !.pc = "catchLogError", !.stats.errors = @ + 1])
    /\ UNCHANGED <<now, store, statsLog, runsStarted, failures>>

\* catch (itemError): await logError(...); stats.errors++
ItemLogError(r) ==
    /\ run[r].pc = "itemLogError"
    /\ errorLog' = errorLog \cup
          { [source |-> run[r].source, operation |-> "process_item",
             itemId |-> run[r].itemData.id] }
    /\ Set(r, LoopHead([run[r] EXCEPT !.stats.errors = @ + 1, !.i = @ + 1,
                                      !.existingDoc = {}]))
    /\ UNCHANGED <<now, store, statsLog, runsStarted, failures>>

\* stats.endTime = new Date(); stats.duration = ...
Finished(rec) ==
    [rec EXCEPT !.pc = "logStats",
                !.stats.keys = @ \cup {"endTime", "duration"}]

\* markListingsInactive: cutoffTime, snapshot = await query.get(); with an
\* empty snapshot no batch is committed and the count 0 is returned.
SweepRead(r) ==
    /\ run[r].pc = "sweepRead"
    /\ LET cutoffTime == now - InactivityWindow(run[r].source)
           snapshot == { d.id : d \in StaleQuery(run[r].source, cutoffTime) }
           rec == [run[r] EXCEPT !.cutoff = cutoffTime, !.snapshot = snapshot,
                                 !.inactiveCount = Cardinality(snapshot)]
       IN Set(r, IF snapshot = {} THEN Finished(rec)
                 ELSE [rec EXCEPT !.pc = "sweepCommit"])
    /\ UNCHANGED <<now, store, statsLog, errorLog, runsStarted, failures>>

\* markListingsInactive: await batch.commit()
SweepCommit(r) ==
    /\ run[r].pc = "sweepCommit"
    /\ store' = StoreAfterBatch(run[r].snapshot)
    /\ Set(r, Finished(run[r]))
    /\ UNCHANGED <<now, statsLog, errorLog, runsStarted, failures>>

\* Faulty variant: the failing sweep takes the run's writes back.
SweepFailRollingBack(r) ==
    /\ run[r].pc \in {"sweepRead", "sweepCommit"}
    /\ store' = store \ run[r].written
    /\ Set(r, [run[r] EXCEPT !.pc = "catchLogError", !.inactiveCount = 0,
                             !.error = "sweep"])
    /\ UNCHANGED <<now, statsLog, errorLog, runsStarted>>

\* query.get or batch.commit rejects: markListingsInactive rethrows into
\* the outer catch.
SweepFail(r) ==
    /\ run[r].pc \in {"sweepRead", "sweepCommit"}
    /\ Set(r, [run[r] EXCEPT !.pc = "catchLogError", !.inactiveCount = 0,
                             !.error = "sweep"])
    /\ UNCHANGED <<now, store, statsLog, errorLog, runsStarted>>

\* return stats, or throw error: the stats object and the error thrown are
\* all that is left (and what a failed run had written is remembered).
Ended(rec, pc) ==
    [IdleRun EXCEPT !.pc = pc, !.source = rec.source, !.stats = rec.stats,
                    !.error = rec.error,
                    !.written = IF pc = "thrown" THEN rec.written ELSE {}]

\* await databaseService.logStats(stats); return stats
LogStats(r) ==
    /\ run[r].pc \in {"logStats", "logStatsEmpty"}
    /\ statsLog' = statsLog \cup {run[r].stats}
    /\ Set(r, Ended(run[r], "returned"))
    /\ UNCHANGED <<now, store, errorLog, runsStarted, failures>>

\* logStats rejects inside the try block: the outer catch.
LogStatsFail(r) ==
    /\ run[r].pc \in {"logStats", "logStatsEmpty"}
    /\ Set(r, [run[r] EXCEPT !.pc = "catchLogError", !.error = "logStats"])
    /\ UNCHANGED <<now, store, statsLog, errorLog, runsStarted>>

\* catch (error): await logError(...); stats.errors++; stats.endTime = ...
CatchLogError(r) ==
    /\ run[r].pc = "catchLogError"
    /\ errorLog' = errorLog \cup
          { [source |-> run[r].source, operation |-> "scrape", itemId |-> ""] }
    /\ Set(r, [run[r] EXCEPT !.pc = "catchLogStats",
                             !.stats.errors = @ + 1,
                             !.stats.keys = @ \cup {"endTime"}])
    /\ UNCHANGED <<now, store, statsLog, runsStarted, failures>>

\* catch (error): logError's write rejects; logError swallows that, so the
\* catch block goes on without an entry in scraping_errors.
CatchLogErrorFail(r) ==
    /\ run[r].pc = "catchLogError"
    /\ Set(r, [run[r] EXCEPT !.pc = "catchLogStats",
                             !.stats.errors = @ + 1,
                             !.stats.keys = @ \cup {"endTime"}])
    /\ UNCHANGED <<now, store, statsLog, errorLog, runsStarted>>

\* Faulty variant: the catch block rethrows without the statistics record.
CatchLogStatsSkipping(r) ==
    /\ run[r].pc = "catchLogStats"
    /\ Set(r, Ended(run[r], "thrown"))
    /\ UNCHANGED <<now, store, statsLog, errorLog, runsStarted, failures>>

\* catch (error): await logStats(stats); throw error
CatchLogStats(r) ==
    /\ run[r].pc = "catchLogStats"
    /\ statsLog' = statsLog \cup {run[r].stats}
    /\ Set(r, Ended(run[r], "thrown"))
    /\ UNCHANGED <<now, store, errorLog, runsStarted, failures>>

\* catch (error): logStats rejects inside the catch block; its error is the
\* one that leaves scrape, and no statistics record is written.
CatchLogStatsFail(r) ==
    /\ run[r].pc = "catchLogStats"
    /\ Set(r, Ended([run[r] EXCEPT !.error = "logStats"], "thrown"))
    /\ UNCHANGED <<now, store, statsLog, errorLog, runsStarted>>

\* Days pass.  A run takes minutes: no run is in flight for days.
Tick(days) ==
    /\ \A r \in Slots : Idle(r)
    /\ now + days <= MaxClock
    /\ now' = now + days
    /\ UNCHANGED <<store, run, statsLog, errorLog, runsStarted, failures>>

\* The clock advances by a few days or by exactly the 7 days of the sweep.
TickSteps == {TickDays, KleinanzeigenInactiveDays}

\* A remote operation fails; the model bounds how often.
Failing(A) ==
    /\ failures < MaxFailures
    /\ failures' = failures + 1
    /\ A

----------------------------------------------------------------------------
(* The system: runs started by POST /api/search/save, at most MaxRuns.     *)
(* The collection outlives the process: a run may find listings that       *)
(* earlier runs have stored.                                                *)

\* The scheduled function between two invocations.
IdleCron ==
    [pc |-> "idle", items |-> <<>>, i |-> 0, exists |-> FALSE,
     existingData |-> NoItem, needsDetailsFetch |-> FALSE,
     newItems |-> 0, updatedItems |-> 0, detailsFetched |-> 0,
     detailsSkipped |-> 0, runs |-> 0]

\* The listings with native id "1", stored at day 0 with the price they
\* had then.
StoredEarlier ==
    UNION { { SetDoc(normalizeListing(
                        ItemData([item EXCEPT !.price = Some(EarlierPrice)]),
                        source), 0) :
                item \in { i \in RawItems(source) : i.id = "1" } } :
            source \in Sources }

Init ==
    /\ now = 0
    /\ store \in {{}, StoredEarlier}
    /\ run = [r \in Slots |-> IdleRun]
    /\ statsLog = {}
    /\ errorLog = {}
    /\ runsStarted = 0
    /\ failures = 0
    /\ calls = <<>>
    /\ random = "r1"   \* no run reads it: the fetchers give every record an id
    /\ cron = IdleCron
    /\ nachmieter = {}

StartRun(r, source) ==
    /\ runsStarted < MaxRuns
    /\ \A q \in Slots : q < r => ~Idle(q)
    /\ runsStarted' = runsStarted + 1
    /\ Start(r, source)

Next ==
    /\ UNCHANGED <<calls, random, cron, nachmieter>>
    /\ \/ \E r \in Slots, source \in Sources : StartRun(r, source)
       \/ \E r \in Slots : \E items \in Batches(run[r].source) : SearchOk(r, items)
       \/ \E r \in Slots, detailedInfo \in DetailResults : Details(r, detailedInfo)
       \/ \E r \in Slots : Get(r)
       \/ \E r \in Slots : Write(r)
       \/ \E r \in Slots : SweepRead(r)
       \/ \E r \in Slots : SweepCommit(r)
       \/ \E r \in Slots : LogStats(r)
       \/ \E days \in TickSteps : Tick(days)

Spec == Init /\ [][Next]_vars

----------------------------------------------------------------------------
(* One run at a time, whose remote operations may fail.                    *)

NextSeq ==
    /\ UNCHANGED <<calls, random, cron, nachmieter>>
    /\ \/ \E source \in Sources : StartRun(1, source)
       \/ \E items \in Batches(run[1].source) : SearchOk(1, items)
       \/ Failing(SearchFail(1))
       \/ \E detailedInfo \in DetailResults : Details(1, detailedInfo)
       \/ Get(1)
       \/ Write(1)
       \/ Failing(SaveFail(1))
       \/ ItemLogError(1)
       \/ SweepRead(1)
       \/ SweepCommit(1)
       \/ Failing(SweepFail(1))
       \/ LogStats(1)
       \/ Failing(LogStatsFail(1))
       \/ CatchLogError(1)
       \/ Failing(CatchLogErrorFail(1))
       \/ CatchLogStats(1)
       \/ Failing(CatchLogStatsFail(1))
       \/ \E days \in TickSteps : Tick(days)

SpecSeq == Init /\ [][NextSeq]_vars

----------------------------------------------------------------------------
(* Kleinanzeigen runs that are executed again and again, one at a time,    *)
(* with no failing remote operation.  The event loop resumes every await   *)
(* and the caller keeps starting runs: weak fairness of the run's steps.   *)

LiveBatches == SeqsUpTo(KleinanzeigenItems, MaxLiveItems)

RunStep ==
    /\ UNCHANGED <<calls, random, cron, nachmieter>>
    /\ \/ Start(1, "kleinanzeigen") /\ UNCHANGED runsStarted
       \/ \E items \in LiveBatches : SearchOk(1, items)
       \/ \E detailedInfo \in DetailResults : Details(1, detailedInfo)
       \/ Get(1)
       \/ Write(1)
       \/ SweepRead(1)
       \/ SweepCommit(1)
       \/ LogStats(1)

NextLive ==
    \/ RunStep
    \/ UNCHANGED <<calls, random, cron, nachmieter>> /\ \E days \in TickSteps : Tick(days)

SpecLive == Init /\ [][NextLive]_vars /\ WF_vars(RunStep)

----------------------------------------------------------------------------
(* The normalizer and the validator called directly (module.exports), on   *)
(* any raw record and any listing.                                         *)

\* Raw Kleinanzeigen records: id, url and title may be missing.
KleinanzeigenRecords ==
    [ id : {"", "1", "wg-1"}, url : {"", "u"}, title : {"", "A"},
      price : {NULL, Some(650)} ]

\* Raw WG-Gesucht records: offer_id and offer_title may be missing.
WgRecords ==
    [ id : {"", "1"}, title : {"", "A"}, price : {NULL, Some(650)} ]

RawRecords(source) ==
    IF source = "kleinanzeigen" THEN KleinanzeigenRecords ELSE WgRecords

\* Listings handed to the validator, with and without coordinates.
CanonicalListings ==
    [ id : {"", "1"}, source : {"", "kleinanzeigen"}, title : {"", "A"},
      price : {NULL, Some(-5), Some(0), Some(650)},
      coordinates : [ lat : {NULL, Some(-91), Some(-90), Some(0), Some(200)},
                      lng : {NULL, Some(-181), Some(180), Some(181)} ] ]
    \cup [ id : {"", "1"}, source : {"", "kleinanzeigen"}, title : {"", "A"},
           price : {NULL, Some(-5), Some(650)} ]

\* Raw prices: null, "", "650 €", "1.234,56 €", "VB".
RawPrices ==
    { [type |-> "null", chars |-> <<>>],
      [type |-> "string", chars |-> <<>>],
      [type |-> "string", chars |-> <<"6", "5", "0", " ", "€">>],
      [type |-> "string",
       chars |-> <<"1", ".", "2", "3", "4", ",", "5", "6", " ", "€">>],
      [type |-> "string", chars |-> <<"V", "B">>] }

\* normalizePrice(price) is called on a raw price.
PriceCall(price) ==
    /\ calls' = << [fn |-> "normalizePrice", source |-> "none", arg |-> price,
                    out |-> normalizePriceString(price)] >>
    /\ UNCHANGED <<now, store, run, statsLog, errorLog, runsStarted, failures,
                   random, cron, nachmieter>>

\* Image arrays of up to three elements (the same URL with and without
\* scheme, something that is no string), and one of eleven URLs.
ImageLists ==
    SeqsUpTo({Url("https:", "//a"), Url("", "//a"), NoString}, 3)
    \cup { [k \in 1..(MaxImages + 1) |-> Url("https:", "//" \o ToString(k))] }

\* Raw records with images: the images array (or allImages of the detail
\* page) of Kleinanzeigen, thumb / sized / small of WG-Gesucht.
ImageRecords(source) ==
    IF source = "kleinanzeigen"
    THEN { [id |-> "1", title |-> "A", price |-> NULL, images |-> l] :
              l \in ImageLists }
         \cup { [id |-> "1", title |-> "A", price |-> NULL, images |-> <<>>,
                 allImages |-> l] : l \in ImageLists }
    ELSE [ id : {"1"}, title : {"A"}, price : {NULL},
           thumb : {"", "t"}, sized : {"", "t", "s"}, small : {"", "s"} ]

\* normalizeListing(rawData, source) is called on a record with images.
NormalizeImagesCall(rawData, source) ==
    /\ calls' = << [fn |-> "images", source |-> source, arg |-> rawData,
                    out |-> normalizeListing(rawData, source).images] >>
    /\ UNCHANGED <<now, store, run, statsLog, errorLog, runsStarted, failures,
                   random, cron, nachmieter>>

\* normalizeListing(rawData, source) is called; the latest two calls are kept.
NormalizeCall(rawData, source) ==
    /\ LET c == [fn |-> "normalizeListing", source |-> source, arg |-> rawData,
                 out |-> normalizeListing(rawData, source)]
       IN calls' = IF calls # <<>> /\ calls[Len(calls)].fn = "normalizeListing"
                   THEN <<calls[Len(calls)], c>>
                   ELSE <<c>>
    /\ random' \in Randoms
    /\ UNCHANGED <<now, store, run, statsLog, errorLog, runsStarted, failures,
                   cron, nachmieter>>

\* validateNormalizedData(data) is called.
ValidateCall(data) ==
    /\ calls' = << [fn |-> "validateNormalizedData", source |-> "none",
                    arg |-> data, out |-> validateNormalizedData(data)] >>
    /\ UNCHANGED <<now, store, run, statsLog, errorLog, runsStarted, failures,
                   random, cron, nachmieter>>

NextCalls ==
    \/ \E source \in Sources : \E rawData \in RawRecords(source) :
          NormalizeCall(rawData, source)
    \/ \E data \in CanonicalListings : ValidateCall(data)
    \/ \E price \in RawPrices : PriceCall(price)
    \/ \E source \in Sources : \E rawData \in ImageRecords(source) :
          NormalizeImagesCall(rawData, source)

SpecCalls == Init /\ [][NextCalls]_vars

----------------------------------------------------------------------------
(* The listing query, DatabaseService.getListings, on stores as the runs   *)
(* leave them.                                                             *)

RECURSIVE OrderByLastSeenDesc(_)

\* query.orderBy("lastSeen", "desc")
OrderByLastSeenDesc(docs) ==
    IF docs = {} THEN <<>>
    ELSE LET first == CHOOSE d \in docs : \A e \in docs : e.lastSeen <= d.lastSeen
         IN <<first>> \o OrderByLastSeenDesc(docs \ {first})

\* getListings(filters): a filter that is undefined (null here) or falsy is
\* not applied; filters.offset is not read.
getListings(filters) ==
    LET matching ==
            { d \in store :
                /\ TruthyStr(filters.source) => d.source = filters.source
                /\ filters.isActive # NULL => d.isActive = filters.isActive[1]
                /\ TruthyNum(filters.minPrice) =>
                      d.price # NULL /\ d.price[1] >= filters.minPrice[1]
                /\ TruthyNum(filters.maxPrice) =>
                      d.price # NULL /\ d.price[1] <= filters.maxPrice[1] }
        ordered == OrderByLastSeenDesc(matching)
    IN IF TruthyNum(filters.limit) /\ filters.limit[1] < Len(ordered)
       THEN SubSeq(ordered, 1, filters.limit[1])
       ELSE ordered

Filters ==
    [ source : {""} \cup Sources,
      isActive : {NULL, Some(TRUE), Some(FALSE)},
      minPrice : {NULL, Some(450)},
      maxPrice : {NULL, Some(600)},
      limit : {NULL, Some(1), Some(2)},
      offset : {NULL, Some(1)} ]

\* Documents as the runs write them: created, updated later, deactivated
\* by a sweep; of both sources, with and without a price.
QueryDocs ==
    LET k1 == CHOOSE i \in KleinanzeigenItems : i.id = "1"
        k2 == CHOOSE i \in KleinanzeigenItems : i.id = "2"
        w1 == CHOOSE i \in WgOffers : i.id = "1"
        w2 == CHOOSE i \in WgOffers : i.id = "2"
        l2 == normalizeListing([ItemData(k2) EXCEPT !.detailedTitle = "D"],
                               "kleinanzeigen")
    IN { SetDoc(normalizeListing(ItemData(k1), "kleinanzeigen"), 0),
         [SetDoc(normalizeListing(ItemData(w1), "wg-gesucht"), 1)
             EXCEPT !.isActive = FALSE],
         SetDoc(normalizeListing(ItemData(w2), "wg-gesucht"), 2),
         UpdateDoc(SetDoc(l2, 1), l2, 3) }

InitQuery ==
    /\ now = 3
    /\ store \in SUBSET QueryDocs
    /\ run = [r \in Slots |-> IdleRun]
    /\ statsLog = {}
    /\ errorLog = {}
    /\ runsStarted = 0
    /\ failures = 0
    /\ calls = <<>>
    /\ random = "r1"
    /\ cron = IdleCron
    /\ nachmieter = {}

\* snapshot = await query.get(); the listings are returned.
GetListingsCall(filters) ==
    /\ calls' = << [fn |-> "getListings", source |-> "none", arg |-> filters,
                    out |-> getListings(filters)] >>
    /\ UNCHANGED <<now, store, run, statsLog, errorLog, runsStarted, failures,
                   random, cron, nachmieter>>

\* The ids a client asks for: those of the listings, and one of no listing.
ItemIds == { d.id : d \in QueryDocs } \cup {"kleinanzeigen-0"}

\* GET /api/items/:id: getListings({ id: itemId, limit: 1 }), then 404 for
\* an empty result and the first listing otherwise.
GetItem(itemId) ==
    LET listings == getListings([id |-> itemId, limit |-> Some(1),
                                 source |-> "", isActive |-> NULL,
                                 minPrice |-> NULL, maxPrice |-> NULL])
    IN IF Len(listings) = 0
       THEN [status |-> 404, success |-> FALSE, item |-> NULL]
       ELSE [status |-> 200, success |-> TRUE, item |-> Some(listings[1])]

\* A client requests GET /api/items/:id.
GetItemCall(itemId) ==
    /\ calls' = << [fn |-> "getItem", source |-> "none", arg |-> itemId,
                    out |-> GetItem(itemId)] >>
    /\ UNCHANGED <<now, store, run, statsLog, errorLog, runsStarted, failures,
                   random, cron, nachmieter>>

NextQuery ==
    \/ \E filters \in Filters : GetListingsCall(filters)
    \/ \E itemId \in ItemIds : GetItemCall(itemId)

SpecQuery == InitQuery /\ [][NextQuery]_vars

----------------------------------------------------------------------------
(* The scheduled Cloud Function scrapeNachmieter *)

\* What searchItems yields: extractItemId gives every item an id; the
\* description is text or "", images holds the one list image or nothing.
CronItems ==
    { [id |-> "1", description |-> "", images |-> <<>>],
      [id |-> "1", description |-> "d", images |-> <<"i">>],
      [id |-> "2", description |-> "d", images |-> <<"i">>] }

CronBatches == SeqsUpTo(CronItems, MaxItems)

\* What getItemDetails yields: the description and the gallery images.
CronDetails == [ description : {"", "D"},
                 images : {<<>>, <<"a">>, <<"a", "b">>} ]

\* { ...doc, ...update }
Merge(doc, update) ==
    [k \in DOMAIN doc \cup DOMAIN update |->
        IF k \in DOMAIN update THEN update[k] ELSE doc[k]]

NachmieterDocs(id) == { d \in nachmieter : d.id = id }

\* docRef.update(data) on the document read before
NachmieterAfterUpdate(id, data) ==
    { IF d.id = id THEN Merge(d, data) ELSE d : d \in nachmieter }

\* !existingData.detailedInfoFetched || !existingData.fullDescription ||
\* !existingData.allImages || existingData.allImages.length <= 1
needsDetailsFetch(existingData) ==
    \/ ~existingData.detailedInfoFetched
    \/ ~("fullDescription" \in DOMAIN existingData
           /\ existingData.fullDescription # "")
    \/ ~("allImages" \in DOMAIN existingData)
    \/ Len(existingData.allImages) <= 1

CronItem == cron.items[cron.i]

\* for (const item of items): the next item, or the statistics.
CronLoopHead(c) ==
    IF c.i < Len(c.items)
    THEN [c EXCEPT !.pc = "get", !.i = c.i + 1]
    ELSE [c EXCEPT !.pc = "stats"]

\* The schedule fires and searchItems resolves.
CronStart(items) ==
    /\ cron.pc = "idle"
    /\ cron.runs < MaxCronRuns
    /\ now' = now + 1
    /\ cron' = CronLoopHead([IdleCron EXCEPT !.items = items,
                                             !.runs = cron.runs + 1])
    /\ UNCHANGED <<store, run, statsLog, errorLog, runsStarted, failures,
                   calls, random, nachmieter>>

\* searchItems rejects: the error is written to scraping_errors.
CronSearchFail ==
    /\ cron.pc = "idle"
    /\ cron.runs < MaxCronRuns
    /\ now' = now + 1
    /\ cron' = [IdleCron EXCEPT !.runs = cron.runs + 1]
    /\ errorLog' = errorLog \cup
           {[source |-> "scheduled-cron", timestamp |-> now + 1]}
    /\ UNCHANGED <<store, run, statsLog, runsStarted, failures,
                   calls, random, nachmieter>>

\* existingDoc = await docRef.get()
CronGet ==
    /\ cron.pc = "get"
    /\ LET found == NachmieterDocs(CronItem.id) IN
       cron' = [cron EXCEPT
                  !.pc = "save",
                  !.exists = found # {},
                  !.existingData = IF found = {} THEN NoItem
                                   ELSE CHOOSE d \in found : TRUE]
    /\ UNCHANGED <<now, store, run, statsLog, errorLog, runsStarted, failures,
                   calls, random, nachmieter>>

\* existingDoc.exists: needsDetailsFetch is computed, await docRef.update
CronUpdate ==
    /\ cron.pc = "save"
    /\ cron.exists
    /\ nachmieter' = NachmieterAfterUpdate(CronItem.id,
                         Merge(CronItem, [lastSeen |-> now]))
    /\ cron' = [cron EXCEPT
                  !.pc = "details",
                  !.needsDetailsFetch = needsDetailsFetch(cron.existingData),
                  !.updatedItems = @ + 1]
    /\ UNCHANGED <<now, store, run, statsLog, errorLog, runsStarted, failures,
                   calls, random>>

\* A new item: needsDetailsFetch = true, await docRef.set
CronSet ==
    /\ cron.pc = "save"
    /\ ~cron.exists
    /\ nachmieter' = { d \in nachmieter : d.id # CronItem.id } \cup
           { Merge(CronItem, [firstSeen |-> now, lastSeen |-> now,
                              isActive |-> TRUE,
                              detailedInfoFetched |-> FALSE]) }
    /\ cron' = [cron EXCEPT !.pc = "details",
                            !.needsDetailsFetch = TRUE,
                            !.newItems = @ + 1]
    /\ UNCHANGED <<now, store, run, statsLog, errorLog, runsStarted, failures,
                   calls, random>>

\* needsDetailsFetch: getItemDetails resolves, await docRef.update(enhancedData)
CronFetchOk(detailedInfo) ==
    /\ cron.pc = "details"
    /\ cron.needsDetailsFetch
    /\ nachmieter' = NachmieterAfterUpdate(CronItem.id,
          Merge(CronItem,
            [fullDescription |-> IF detailedInfo.description # ""
                                 THEN detailedInfo.description
                                 ELSE CronItem.description,
             allImages |-> IF Len(detailedInfo.images) > 0
                           THEN detailedInfo.images ELSE CronItem.images,
             detailedInfoFetched |-> TRUE,
             detailsFetchedAt |-> now,
             lastSeen |-> now]))
    /\ cron' = CronLoopHead([cron EXCEPT !.detailsFetched = @ + 1])
    /\ UNCHANGED <<now, store, run, statsLog, errorLog, runsStarted, failures,
                   calls, random>>

\* needsDetailsFetch: getItemDetails rejects, the attempt is recorded.
CronFetchFail ==
    /\ cron.pc = "details"
    /\ cron.needsDetailsFetch
    /\ nachmieter' = NachmieterAfterUpdate(CronItem.id,
          [detailedInfoFetched |-> FALSE, detailsFetchAttemptedAt |-> now])
    /\ cron' = CronLoopHead([cron EXCEPT !.detailsSkipped = @ + 1])
    /\ UNCHANGED <<now, store, run, statsLog, errorLog, runsStarted, failures,
                   calls, random>>

\* not needsDetailsFetch: detailsSkipped++
CronSkip ==
    /\ cron.pc = "details"
    /\ ~cron.needsDetailsFetch
    /\ cron' = CronLoopHead([cron EXCEPT !.detailsSkipped = @ + 1])
    /\ UNCHANGED <<now, store, run, statsLog, errorLog, runsStarted, failures,
                   calls, random, nachmieter>>

\* await db.collection("scraping_stats").add(stats); return
CronStats ==
    /\ cron.pc = "stats"
    /\ statsLog' = statsLog \cup
          {[source |-> "scheduled-cron", timestamp |-> now,
            totalFound |-> Len(cron.items), newItems |-> cron.newItems,
            updatedItems |-> cron.updatedItems,
            detailsFetched |-> cron.detailsFetched,
            detailsSkipped |-> cron.detailsSkipped,
            keys |-> {"timestamp", "totalFound", "newItems", "updatedItems",
                      "detailsFetched", "detailsSkipped", "query", "source"}]}
    /\ cron' = [IdleCron EXCEPT !.runs = cron.runs]
    /\ UNCHANGED <<now, store, run, errorLog, runsStarted, failures,
                   calls, random, nachmieter>>

NextCron ==
    \/ \E items \in CronBatches : CronStart(items)
    \/ CronSearchFail
    \/ CronGet
    \/ CronUpdate
    \/ CronSet
    \/ \E detailedInfo \in CronDetails : CronFetchOk(detailedInfo)
    \/ CronFetchFail
    \/ CronSkip
    \/ CronStats

SpecCron == Init /\ [][NextCron]_vars

----------------------------------------------------------------------------
(* markListingsInactive and saveOrUpdateListing called one after the other *)
(* by a caller that awaits each call, on stores as the runs leave them.     *)

\* The windows (olderThan) a sweep is called with.
SweepWindows == {ShortWindow, KleinanzeigenInactiveDays}

\* The listings upserted between sweeps.
UpsertListings ==
    { normalizeListing(ItemData(item), "kleinanzeigen") :
         item \in { i \in KleinanzeigenItems : i.id = "1" } }
    \cup { normalizeListing(ItemData(offer), "wg-gesucht") :
             offer \in { o \in WgOffers : o.id = "2" } }

InitSweep ==
    /\ now = SweepClock
    /\ store \in SUBSET QueryDocs
    /\ run = [r \in Slots |-> IdleRun]
    /\ statsLog = {}
    /\ errorLog = {}
    /\ runsStarted = 0
    /\ failures = 0
    /\ calls = <<>>
    /\ random = "r1"
    /\ cron = IdleCron
    /\ nachmieter = {}

\* The latest two calls.
LatestTwo(c) ==
    IF calls = <<>> THEN <<c>> ELSE <<calls[Len(calls)], c>>

\* markListingsInactive(source, olderThan): the query, the batch update of
\* every snapshot document, the commit when count > 0, and the count.
markListingsInactive(source, olderThan) ==
    LET cutoffTime == now - olderThan
        snapshot == { d.id : d \in StaleQuery(source, cutoffTime) }
        count == Cardinality(snapshot)
    IN [count |-> count, committed |-> count > 0,
        store |-> IF count > 0 THEN StoreAfterBatch(snapshot) ELSE store]

\* await databaseService.markListingsInactive(source, olderThan)
MarkInactiveCall(source, olderThan) ==
    LET swept == markListingsInactive(source, olderThan) IN
    /\ store' = swept.store
    /\ calls' = LatestTwo([fn |-> "markListingsInactive", source |-> source,
                           arg |-> olderThan, out |-> swept.count,
                           committed |-> swept.committed, clock |-> now,
                           before |-> store, after |-> swept.store])
    /\ UNCHANGED <<now, run, statsLog, errorLog, runsStarted, failures,
                   random, cron, nachmieter>>

\* await databaseService.saveOrUpdateListing(listingData)
UpsertCall(listingData) ==
    LET timestamp == ServerTimestamp(listingData.id)
        exists == Exists(listingData.id)
    IN /\ timestamp <= MaxClock
       /\ now' = timestamp
       /\ store' = IF exists THEN StoreAfterUpdate(listingData, timestamp)
                   ELSE StoreAfterSet(listingData, timestamp)
       /\ calls' = LatestTwo([fn |-> "saveOrUpdateListing",
                              source |-> listingData.source,
                              arg |-> listingData,
                              out |-> IF exists THEN "updated" ELSE "created"])
       /\ UNCHANGED <<run, statsLog, errorLog, runsStarted, failures,
                      random, cron, nachmieter>>

NextSweep ==
    \/ \E source \in Sources : \E olderThan \in SweepWindows :
          MarkInactiveCall(source, olderThan)
    \/ \E listingData \in UpsertListings : UpsertCall(listingData)
    \/ Tick(1) /\ UNCHANGED <<calls, random, cron, nachmieter>>

SpecSweep == InitSweep /\ [][NextSweep]_vars

----------------------------------------------------------------------------
(* Steps of a run, as the properties below name them *)

\* Slot r commits the write of saveOrUpdateListing in this step.
Wrote(r) ==
    /\ run[r].pc = "write"
    /\ run'[r] # run[r]
    /\ run'[r].pc # "itemLogError"

\* Slot r reads the snapshot of markListingsInactive in this step.
SweepReadStep(r) ==
    /\ run[r].pc = "sweepRead"
    /\ run'[r].pc \in {"sweepCommit", "logStats"}

\* Slot r commits the batch of markListingsInactive in this step.
SweepCommitStep(r) ==
    /\ run[r].pc = "sweepCommit"
    /\ run'[r].pc = "logStats"

DocsAfter(id) == { e \in store' : e.id = id }

Deactivated(d) == [d EXCEPT !.isActive = FALSE]

\* The active listings of a source last seen before the cutoff.
Expired(source, cutoff) ==
    { d \in store : /\ d.source = source
                    /\ d.isActive
                    /\ d.lastSeen < cutoff }

----------------------------------------------------------------------------
\* C1: with one run at a time, an upsert of an absent id stores exactly one
\* document of that id and returns "created"; an upsert of an id that is
\* stored leaves exactly one document of that id and returns "updated".
C1_UpsertIdempotent ==
    [][\A r \in Slots : Wrote(r) =>
          LET id == run[r].norm.id IN
          /\ Cardinality(DocsAfter(id)) = 1
          /\ run'[r].result =
                [action |-> IF Exists(id) THEN "updated" ELSE "created",
                 id |-> id]]_vars

\* A run has upserted the same absent id twice: one created, one updated.
C1_Witness ==
    \E r \in Slots :
        /\ run[r].pc = "sweepRead"
        /\ Len(run[r].items) = 2
        /\ run[r].items[1].id = run[r].items[2].id
        /\ run[r].stats.newItems = 1
        /\ run[r].stats.updatedItems = 1
        /\ run[r].result.action = "updated"
        /\ Cardinality(Docs(run[r].result.id)) = 1

\* C2: the firstSeen of a stored listing never changes, in any interleaving
\* of runs.
C2_FirstSeenNeverChanges ==
    [][\A d \in store : \A e \in DocsAfter(d.id) :
          e.firstSeen = d.firstSeen]_vars

\* C3: a freshly created listing has lastSeen = firstSeen, and every upsert
\* of an id that is stored sets lastSeen strictly greater than it was.
C3_LastSeenIncreases ==
    [][\A r \in Slots : Wrote(r) =>
          LET id == run[r].norm.id IN
          /\ run'[r].result.action = "created" =>
                \A e \in DocsAfter(id) : e.lastSeen = e.firstSeen
          /\ \A d \in Docs(id) : \A e \in DocsAfter(id) :
                e.lastSeen > d.lastSeen
          /\ DocsAfter(id) # {}]_vars

\* A listing has been upserted again after its creation.
C3_Witness ==
    \E r \in Slots :
        /\ run[r].result.action = "updated"
        /\ \E d \in Docs(run[r].result.id) : d.lastSeen > d.firstSeen

\* C4: with one run at a time, the sweep of a source reads exactly the
\* active listings of that source whose lastSeen is older than now - window,
\* deactivates exactly those, leaves every other document as it was, and
\* returns their number.
C4_SweepExact ==
    [][\A r \in Slots :
          /\ SweepReadStep(r) =>
                LET expired == Expired(run[r].source, now - 7) IN
                /\ run'[r].cutoff = now - 7
                /\ run'[r].snapshot = { d.id : d \in expired }
                /\ run'[r].inactiveCount = Cardinality(expired)
                /\ expired = {} => run'[r].pc = "logStats"
                /\ store' = store
          /\ SweepCommitStep(r) =>
                LET expired == Expired(run[r].source, run[r].cutoff) IN
                /\ store' = (store \ expired)
                               \cup { Deactivated(d) : d \in expired }
                /\ run'[r].inactiveCount = Cardinality(expired)]_vars

\* A sweep has deactivated one listing of its source and left a fresh one of
\* the same source active.
C4_Witness ==
    \E r \in Slots :
        /\ run[r].pc = "logStats"
        /\ run[r].inactiveCount = 1
        /\ \E d \in store : /\ d.source = run[r].source
                            /\ d.id \in run[r].snapshot
                            /\ ~d.isActive
        /\ \E d \in store : /\ d.source = run[r].source
                            /\ d.isActive
                            /\ d.lastSeen >= run[r].cutoff

\* C5: a listing of the sweep's snapshot that was upserted after the
\* snapshot was read (its lastSeen is no longer older than the cutoff) is
\* still active after the batch commit.
C5_RefreshedStaysActive ==
    [][\A r \in Slots : SweepCommitStep(r) =>
          \A d \in store :
             (d.id \in run[r].snapshot /\ d.lastSeen >= run[r].cutoff) =>
                \A e \in DocsAfter(d.id) : e.isActive]_vars

\* C6: a listing is active right after every successful upsert of a run.
C6_UpsertActivates ==
    [][\A r \in Slots : Wrote(r) =>
          \A e \in DocsAfter(run[r].norm.id) : e.isActive]_vars

\* C7: an upsert that finds its id stored leaves isActive as it was; the
\* flag changes only to true by a creating write of that id, or to false
\* by the batch commit of a sweep whose snapshot holds the id.
C7_UpdateKeepsIsActive ==
    [][/\ \A r \in Slots : (Wrote(r) /\ run[r].exists) =>
             \A d \in Docs(run[r].norm.id) :
                \A e \in DocsAfter(d.id) : e.isActive = d.isActive
       /\ \A d \in store : \A e \in DocsAfter(d.id) :
             e.isActive # d.isActive =>
                \E r \in Slots :
                   \/ /\ Wrote(r)
                      /\ ~run[r].exists
                      /\ run[r].norm.id = d.id
                      /\ e.isActive
                   \/ /\ SweepCommitStep(r)
                      /\ d.id \in run[r].snapshot
                      /\ ~e.isActive]_vars

\* An upsert has updated a listing that the sweep had deactivated.
C7_Witness ==
    \E r \in Slots :
        /\ run[r].result.action = "updated"
        /\ \E d \in Docs(run[r].result.id) :
              /\ ~d.isActive
              /\ d.lastSeen = now
              /\ \A q \in Slots : d.id \notin run[q].snapshot

\* C8: a sweep for one source takes only listings of that source into its
\* snapshot and leaves every listing of another source unchanged, also
\* while a sweep of another source is in flight.
C8_SweepScopedBySource ==
    [][\A r \in Slots :
          /\ SweepReadStep(r) =>
                /\ \A d \in store : d.id \in run'[r].snapshot =>
                      d.source = run[r].source
                /\ store' = store
          /\ SweepCommitStep(r) =>
                \A d \in store : d.source # run[r].source => d \in store']_vars

\* A sweep has committed while an expired listing of another source, in
\* the snapshot of that source's sweep, is still active.
C8_Witness ==
    \E r, q \in Slots :
        /\ run[r].pc = "logStats"
        /\ run[r].inactiveCount > 0
        /\ run[q].pc = "sweepCommit"
        /\ run[q].source # run[r].source
        /\ \E d \in store : /\ d.id \in run[q].snapshot
                            /\ d.source = run[q].source
                            /\ d.isActive
                            /\ d.lastSeen < run[r].cutoff

\* C9: no step removes a stored id, and a sweep changes no field of a
\* document other than isActive.
C9_NothingDeleted ==
    [][/\ StoredIds \subseteq { e.id : e \in store' }
       /\ \A r \in Slots : (SweepReadStep(r) \/ SweepCommitStep(r)) =>
             /\ \A d \in store : d \in store' \/ Deactivated(d) \in store'
             /\ Cardinality(store') = Cardinality(store)]_vars

\* A sweep has deactivated a listing, which is still stored.
C9_Witness ==
    \E r \in Slots :
        /\ run[r].pc = "logStats"
        /\ run[r].inactiveCount > 0
        /\ \E d \in store : d.id \in run[r].snapshot /\ ~d.isActive

\* The Kleinanzeigen listing "1" is active and older than the window.
StaleActive ==
    \E d \in store : /\ d.id = "1"
                     /\ d.isActive
                     /\ d.lastSeen < now - 7

\* C10: if Kleinanzeigen runs keep being executed, an active listing that
\* is older than the inactivity window is eventually marked inactive,
\* unless it is observed again.
C10_EventuallyInactive ==
    ([]<>(run[1].pc = "returned")) => [](StaleActive => <>(~StaleActive))

\* The fetch of slot r's run has resolved (i counts from 1 then).
FetchSucceeded(r) == run[r].i >= 1

\* Slot r's run writes its statistics record in this step.
StatsWritten(r) ==
    /\ run[r].pc \in {"logStats", "logStatsEmpty", "catchLogStats"}
    /\ run'[r].pc \in {"returned", "thrown"}

\* C11: in a run whose fetch succeeded the records are taken in fetch
\* order, each one normalized, validated and then upserted before the next;
\* markListingsInactive is called once, after the last record and for the
\* run's source; the statistics record is written after that call.
C11_RunOrder ==
    [][\A r \in Slots :
          /\ (FetchSucceeded(r) /\ run'[r].i >= 1) => run'[r].i >= run[r].i
          /\ Wrote(r) =>
                /\ run[r].norm = normalizeListing(run[r].itemData, run[r].source)
                /\ run[r].itemData.id = run[r].items[run[r].i].id
                /\ validateNormalizedData(run[r].norm).isValid
                /\ run[r].sweeps = 0
          /\ run'[r].sweeps > run[r].sweeps =>
                /\ run[r].sweeps = 0
                /\ run'[r].i = Len(run[r].items) + 1
                /\ run'[r].pc = "sweepRead"
          /\ SweepReadStep(r) =>
                run'[r].snapshot \subseteq
                   { d.id : d \in { e \in store : e.source = run[r].source } }
          /\ (FetchSucceeded(r) /\ StatsWritten(r)) => run[r].sweeps = 1]_vars

\* C12: no step changes the source of a stored listing, and an upsert that
\* finds its id stored writes every field of the newest extraction while
\* firstSeen, id and source stay what they were.
C12_SourceImmutable ==
    [][/\ \A d \in store : \A e \in DocsAfter(d.id) : e.source = d.source
       /\ \A r \in Slots : (Wrote(r) /\ run[r].exists) =>
             \A d \in Docs(run[r].norm.id) : \A e \in DocsAfter(d.id) :
                /\ \A f \in DOMAIN run[r].norm : e[f] = run[r].norm[f]
                /\ e.firstSeen = d.firstSeen
                /\ e.id = d.id
                /\ e.source = d.source]_vars

\* An update has replaced the price a listing was stored with earlier.
C12_Witness ==
    \E r \in Slots :
        /\ run[r].result.action = "updated"
        /\ \E d \in Docs(run[r].result.id) :
              /\ d.firstSeen = 0
              /\ d.lastSeen > 0
              /\ d.price # Some(EarlierPrice)
              /\ d.source \in Sources

\* The calls of normalizeListing among the latest calls.
Normalized == { i \in DOMAIN calls : calls[i].fn = "normalizeListing" }

\* C13: two raw records of different sources never normalize to the same
\* canonical id, whatever ids, titles and prices they carry.
C13_NoCrossSourceCollision ==
    \A i, j \in Normalized :
        calls[i].source # calls[j].source => calls[i].out.id # calls[j].out.id

\* C14: two calls of normalizeListing on the same raw record of the same
\* source return the same listing, id included.
C14_NormalizeDeterministic ==
    \A i, j \in Normalized :
        (calls[i].source = calls[j].source /\ calls[i].arg = calls[j].arg)
            => calls[i].out = calls[j].out

\* The calls of validateNormalizedData among the latest calls.
Validated == { i \in DOMAIN calls : calls[i].fn = "validateNormalizedData" }

\* lat and lng of a listing, null when it has no coordinates.
LatOf(data) ==
    IF "coordinates" \in DOMAIN data THEN data.coordinates.lat ELSE NULL

LngOf(data) ==
    IF "coordinates" \in DOMAIN data THEN data.coordinates.lng ELSE NULL

\* The rules a listing violates, by the error entry of each.
Violations(data) ==
    { m \in { "Missing required field: id", "Missing required field: source",
              "Missing required field: title", "Invalid price value",
              "Invalid latitude", "Invalid longitude" } :
        \/ m = "Missing required field: id" /\ data.id = ""
        \/ m = "Missing required field: source" /\ data.source = ""
        \/ m = "Missing required field: title" /\ data.title = ""
        \/ m = "Invalid price value" /\ data.price # NULL /\ data.price[1] < 0
        \/ m = "Invalid latitude" /\ LatOf(data) # NULL
              /\ ~(-90 <= LatOf(data)[1] /\ LatOf(data)[1] <= 90)
        \/ m = "Invalid longitude" /\ LngOf(data) # NULL
              /\ ~(-180 <= LngOf(data)[1] /\ LngOf(data)[1] <= 180) }

\* C15: the validator returns one error entry for every violated rule and
\* no other, and the result is valid exactly when no rule is violated: id,
\* source and title non-empty, price null or >= 0, lat and lng null or in
\* [-90, 90] and [-180, 180].
C15_ValidateAccumulates ==
    \A i \in Validated :
        LET data == calls[i].arg
            errors == calls[i].out.errors
        IN /\ { errors[k] : k \in DOMAIN errors } = Violations(data)
           /\ Len(errors) = Cardinality(Violations(data))
           /\ calls[i].out.isValid = (Violations(data) = {})
           /\ calls[i].out.isValid = (errors = <<>>)

\* A listing with an empty title, price -5 and latitude 200 has been
\* validated: three rules are violated at once.
C15_Witness ==
    \E i \in Validated :
        /\ calls[i].arg.id # ""
        /\ calls[i].arg.title = ""
        /\ calls[i].arg.price = Some(-5)
        /\ LatOf(calls[i].arg) = Some(200)
        /\ Len(calls[i].out.errors) = 3
        /\ ~calls[i].out.isValid

\* Slot r's run leaves its current record without having written it.
Skipped(r) ==
    /\ FetchSucceeded(r)
    /\ run'[r].i = run[r].i + 1
    /\ ~Wrote(r)

\* After this step slot r's run is at the next record of its batch, or at
\* the sweep when there is none.
Continues(r) ==
    LET next == run[r].i + 1 IN
    /\ run'[r].i = next
    /\ run'[r].items = run[r].items
    /\ IF next > Len(run[r].items) THEN run'[r].pc = "sweepRead"
       ELSE /\ run'[r].pc \in {"details", "get"}
            /\ run'[r].itemData.id = run[r].items[next].id

\* C16: a record that fails validation or whose store operation fails is
\* not written, is counted in the run's errors, and the run goes on with
\* the next record of the batch.
C16_RecordFailureSkipped ==
    [][\A r \in Slots :
          /\ Skipped(r) =>
                /\ store' = store
                /\ run'[r].stats.errors > run[r].stats.errors
                /\ run'[r].stats.newItems = run[r].stats.newItems
                /\ run'[r].stats.updatedItems = run[r].stats.updatedItems
                /\ Continues(r)
          /\ (run[r].pc \in {"get", "write"} /\ run'[r].pc = "itemLogError") =>
                store' = store
          /\ (run[r].pc = "itemLogError" /\ run'[r] # run[r]) => Skipped(r)
          /\ (run[r].pc = "details" /\ run'[r] # run[r]) =>
                \/ run'[r].pc = "get" /\ run'[r].i = run[r].i
                      /\ validateNormalizedData(run'[r].norm).isValid
                \/ Skipped(r)]_vars

\* The store write of the first WG-Gesucht offer failed; the run logged
\* it, counted it and went on to create the second offer.
C16_Witness ==
    /\ run[1].pc = "sweepRead"
    /\ run[1].source = "wg-gesucht"
    /\ Len(run[1].items) = 2
    /\ run[1].items[1].id = "1"
    /\ run[1].result = [action |-> "created", id |-> "wg-2"]
    /\ run[1].stats.errors = 1
    /\ run[1].stats.newItems = 1
    /\ [source |-> "wg-gesucht", operation |-> "process_item", itemId |-> "1"]
          \in errorLog
    /\ Docs("wg-1") = {}

\* The entry the outer catch writes to scraping_errors for a source.
ScrapeError(source) ==
    [source |-> source, operation |-> "scrape", itemId |-> ""]

\* Slot r's run is in its outer catch because the fetch was rejected.
FetchFailed(r) ==
    /\ run[r].pc \in {"catchLogError", "catchLogStats"}
    /\ run[r].i = 0

\* What the run does in one step after a rejected fetch: nothing is
\* upserted or swept, the error is logged, then the statistics are written
\* with the error counted and no new item, then the fetch error is thrown.
FetchFailureHandled(r) ==
    /\ store' = store
    /\ run[r].sweeps = 0 /\ run'[r].sweeps = 0
    /\ run[r].pc = "catchLogError" =>
          /\ ScrapeError(run[r].source) \in errorLog'
          /\ statsLog' = statsLog
          /\ run'[r].pc = "catchLogStats"
    /\ run[r].pc = "catchLogStats" =>
          /\ run[r].stats \in statsLog'
          /\ run[r].stats.errors = 1
          /\ run[r].stats.newItems = 0
          /\ run[r].stats.updatedItems = 0
          /\ run'[r].pc = "thrown"
          /\ run'[r].error = "fetch"

FailedPartway(r) ==
    /\ run[r].pc \in {"itemLogError", "catchLogError", "catchLogStats", "thrown"}
    /\ run[r].error # "fetch"

\* C18: with one run at a time, every document a run had written before
\* it failed is in the store as the run wrote it, while the failure is
\* handled and after the run has thrown.
C18_NoRollback ==
    \A r \in Slots : FailedPartway(r) => run[r].written \subseteq store

\* A run has thrown the error of its sweep after it had created a listing,
\* which is stored as written.
C18_Witness ==
    /\ run[1].pc = "thrown"
    /\ run[1].error = "sweep"
    /\ run[1].stats.newItems = 1
    /\ run[1].written # {}
    /\ run[1].written \subseteq store

\* getItemDetails is rejected for slot r's current record in this step.
DetailsFailed(r) ==
    /\ run[r].pc = "details"
    /\ run'[r].stats.detailsSkipped > run[r].stats.detailsSkipped

\* C19: when the detail fetch of a record fails, the base record is still
\* normalized and validated and, when valid, upserted; otherwise the run
\* is at the next record; and the document the upsert leaves is flagged
\* detailedInfoFetched = false.
C19_EnrichmentFailureFlagged ==
    [][\A r \in Slots :
          /\ DetailsFailed(r) =>
                LET item == run[r].items[run[r].i]
                    base == normalizeListing(ItemData(item), run[r].source)
                IN IF validateNormalizedData(base).isValid
                   THEN /\ run'[r].pc = "get"
                        /\ run'[r].i = run[r].i
                        /\ run'[r].norm = base
                        /\ ~run'[r].itemData.detailedInfoFetched
                   ELSE Continues(r)
          /\ (Wrote(r) /\ run[r].source = "kleinanzeigen"
                /\ ~run[r].itemData.detailedInfoFetched) =>
                /\ Continues(r)
                /\ \A e \in DocsAfter(run[r].norm.id) :
                      /\ "detailedInfoFetched" \in DOMAIN e
                      /\ e.detailedInfoFetched = FALSE]_vars

\* Another upsert of the same id has been committed since slot r's upsert
\* read the document: both have read before either wrote.
ConcurrentUpsert(r) ==
    /\ run[r].pc = "write"
    /\ \E d \in Docs(run[r].norm.id) :
          \A e \in run[r].existingDoc : e.lastSeen # d.lastSeen

\* C20: the later write of two concurrent upserts of one id leaves exactly
\* one document of that id, whose lastSeen is the time of that write (after
\* the time of the earlier one) and whose listing fields are those of the
\* later upsert.
C20_LastWriteWins ==
    [][\A r \in Slots : (ConcurrentUpsert(r) /\ Wrote(r)) =>
          LET id == run[r].norm.id IN
          /\ Cardinality(DocsAfter(id)) = 1
          /\ \A e \in DocsAfter(id) :
                /\ e.lastSeen = now'
                /\ \A d \in Docs(id) : e.lastSeen > d.lastSeen
                /\ \A f \in DOMAIN run[r].norm : e[f] = run[r].norm[f]]_vars

\* Two runs have both created the same id (both had found it absent) with
\* different titles, and the one document stored is the later run's.
C20_Witness ==
    \E r, q \in Slots :
        /\ r # q
        /\ run[r].result.action = "created"
        /\ run[q].result = run[r].result
        /\ \E dr \in run[r].written, dq \in run[q].written :
              /\ dr.id = run[r].result.id
              /\ dq.id = dr.id
              /\ dq.title # dr.title
              /\ dq.lastSeen < dr.lastSeen
              /\ Docs(dr.id) = {dr}

\* The fields a statistics record is to carry.
StatsFields == {"source", "query", "totalFound", "newItems", "updatedItems",
                "errors", "startTime", "endTime", "duration"}

\* C21: every record in scraping_stats carries source, query, totalFound,
\* newItems, updatedItems, errors, startTime, endTime and duration.
C21_StatsComplete ==
    \A s \in statsLog : StatsFields \subseteq s.keys

\* The calls of getListings among the latest calls.
Queried == { i \in DOMAIN calls : calls[i].fn = "getListings" }

\* The stored listings that match every supplied filter.
Matching(filters) ==
    { d \in store :
        /\ filters.source # "" => d.source = filters.source
        /\ filters.isActive # NULL => d.isActive = filters.isActive[1]
        /\ filters.minPrice # NULL =>
              d.price # NULL /\ filters.minPrice[1] <= d.price[1]
        /\ filters.maxPrice # NULL =>
              d.price # NULL /\ d.price[1] <= filters.maxPrice[1] }

\* C22: the query returns the matching listings, most recently seen
\* first, without the first offset of them and at most limit of the rest.
C22_QueryExact ==
    \A i \in Queried :
        LET filters == calls[i].arg
            out == calls[i].out
            skip == IF filters.offset = NULL THEN 0 ELSE filters.offset[1]
            rest == Cardinality(Matching(filters)) - skip
            count == IF rest < 0 THEN 0
                     ELSE IF filters.limit # NULL /\ filters.limit[1] < rest
                     THEN filters.limit[1] ELSE rest
        IN /\ Len(out) = count
           /\ \A k \in DOMAIN out :
                 /\ out[k] \in Matching(filters)
                 /\ Cardinality({ d \in Matching(filters) :
                                    d.lastSeen > out[k].lastSeen }) = skip + k - 1

\* The calls of normalizePrice among the latest calls.
Priced == { i \in DOMAIN calls : calls[i].fn = "normalizePrice" }

\* C23: normalizePrice maps "1.234,56 €" to 1234.56 (123456 with two
\* digits after the point), and "" and null to null.
C23_PriceParsed ==
    \A i \in Priced :
        LET price == calls[i].arg
            out == calls[i].out
        IN /\ (price.type = "null" \/ price.chars = <<>>) => out = NULL
           /\ price.chars = <<"1", ".", "2", "3", "4", ",", "5", "6", " ", "€">>
                 => out = Some([digits |-> 123456, decimals |-> 2])

\* The calls that normalized the images of a raw record.
WithImages == { i \in DOMAIN calls : calls[i].fn = "images" }

\* C24: the images of a normalized listing are strings, no URL occurs
\* twice among them, and there are at most ten.
C24_ImagesDistinctCapped ==
    \A i \in WithImages :
        LET images == calls[i].out IN
        /\ \A k \in DOMAIN images : images[k].isString
        /\ \A j, k \in DOMAIN images : images[j] = images[k] => j = k
        /\ Len(images) <= MaxImages

\* getItemDetails is called for the item at hand.
CronFetchStep ==
    /\ cron.pc = "details"
    /\ cron.needsDetailsFetch
    /\ cron' # cron

\* The item at hand was stored with detailedInfoFetched = true when the
\* scheduled function read it.
StoredWithDetails == cron.exists /\ cron.existingData.detailedInfoFetched

\* C25: the scheduled function does not fetch the details of an item that
\* is already stored with detailedInfoFetched = true.
C25_DetailsFetchedOnce ==
    [][CronFetchStep => ~StoredWithDetails]_vars

\* The requests of GET /api/items/:id among the latest calls.
ItemRequested == { i \in DOMAIN calls : calls[i].fn = "getItem" }

\* C26: GET /api/items/:id answers with the stored listing of that id, and
\* with 404 when no stored listing has that id.
C26_ItemById ==
    \A i \in ItemRequested :
        LET found == { d \in store : d.id = calls[i].arg }
            out == calls[i].out
        IN IF found = {}
           THEN out.status = 404
           ELSE out.status = 200 /\ out.item # NULL /\ out.item[1] \in found

\* Slot r's run has returned its statistics.
Returned(r) == run[r].pc = "returned"

\* The records the statistics of slot r's run count as created, updated or
\* errored.
Counted(r) ==
    run[r].stats.newItems + run[r].stats.updatedItems + run[r].stats.errors

\* C27: in a run that returns normally every fetched record is counted once
\* as created, updated or errored: the three counters add up to totalFound.
C27_EachRecordCountedOnce ==
    \A r \in Slots : Returned(r) => Counted(r) = run[r].stats.totalFound

\* Slot r's upsert returns action = created in this step.
ReturnsCreated(r) == Wrote(r) /\ run'[r].result.action = "created"

\* C28: at most one upsert of an id returns created.  Documents come from
\* upserts only and are never deleted, so an upsert that returns created
\* finds no document of its id in the store when it writes.
C28_CreatedOncePerId ==
    [][\A r \in Slots : ReturnsCreated(r) => Docs(run[r].norm.id) = {}]_vars

\* C29: every document a run writes to the store satisfies the validation
\* rules when it is written: id, source and title are not empty, the price
\* is null or at least 0, and coordinates that are given are within range.
C29_WrittenIsValid ==
    [][\A r \in Slots : Wrote(r) =>
          /\ DocsAfter(run[r].norm.id) # {}
          /\ \A e \in DocsAfter(run[r].norm.id) : Violations(e) = {}]_vars

\* A Kleinanzeigen run has fetched a record without a title first and a
\* valid record second, has written the second and is at the sweep; the
\* record without a title is not in the store.
C29_Witness ==
    \E r \in Slots :
        /\ run[r].pc = "sweepRead"
        /\ Len(run[r].items) = 2
        /\ run[r].items[1].title = ""
        /\ run[r].items[2].title # ""
        /\ \E d \in run[r].written : d.id = run[r].items[2].id /\ d \in store
        /\ Docs(run[r].items[1].id) = {}

\* The latest two calls are sweeps of one source with one window at one
\* clock value, the second right after the first.
SweptTwice ==
    /\ Len(calls) = 2
    /\ \A i \in 1..2 : calls[i].fn = "markListingsInactive"
    /\ calls[1].source = calls[2].source
    /\ calls[1].arg = calls[2].arg
    /\ calls[1].clock = calls[2].clock

\* C30: a second sweep of the same source and window at the same clock
\* value, with no upsert in between, returns 0, commits no batch and
\* leaves the store as it is.
C30_SweepIdempotent ==
    SweptTwice =>
        /\ calls[2].out = 0
        /\ ~calls[2].committed
        /\ calls[2].after = calls[2].before
        /\ calls[2].before = calls[1].after

\* The first of the two sweeps deactivated a listing, and an active
\* listing of the other source that is as old is still active.
C30_Witness ==
    /\ SweptTwice
    /\ calls[1].out > 0
    /\ calls[1].after # calls[1].before
    /\ store = calls[2].after
    /\ \E d \in store : /\ d.source # calls[1].source
                         /\ d.isActive
                         /\ d.lastSeen < calls[1].clock - calls[1].arg

====
